---- MODULE Spec2Model ----
(***************************************************************************)
(* The OHLCV ingestion scripts of trade-ngin and the PostgreSQL table      *)
(* futures_data.ohlcv_1d they write through psycopg2.                      *)
(*                                                                         *)
(* Four entry points are modelled:                                         *)
(*   "fetch_data"  scripts/fetch_data.py             (per-row execute)     *)
(*   "ingest_data" scripts/ingest_data.py            (loop over datasets)  *)
(*   "tn_ingest"   trade_ngin/scripts/ingest_data.py (one execute_values)  *)
(*   "generate_synthetic" scripts/generate_synthetic_data.py               *)
(*                                       (one committed batch per symbol)  *)
(* and with them the adapter function request_continuous_daily_data of     *)
(* trade_ngin/adapters/databento.py ("request_continuous"), called as      *)
(* trade_ngin/data/test_databento.py calls it.                             *)
(* A run is one process executing one entry point.  The database is the    *)
(* committed table (what a reader sees, READ COMMITTED) plus, for every    *)
(* connection, the rows its open transaction has written and not yet       *)
(* committed.                                                              *)
(***************************************************************************)
EXTENDS Integers, Sequences, FiniteSets, Bags, TLC

\* ---------------------------------------------------------------- bounds
\* Number of distinct trading days a provider frame can hold.
MaxTime == 2
\* Number of datasets the provider's metadata can list (scripts/ingest_data.py).
MaxDatasets == 2

\* The ingestion processes: two, so that a write can be repeated and can race.
Runs == {1, 2}
Times == 1..MaxTime
Symbols == {"ES", "NQ"}
\* The symbols load_synthetic_data walks through, in the order of its dict.
SymbolList == <<"ES", "NQ">>
Variants ==
    {"fetch_data", "ingest_data", "tn_ingest", "generate_synthetic", "request_continuous"}
\* The instrument identifiers the provider resolves a continuous symbol to.
Instruments == {101, 102}

\* ---------------------------------------------------------- provider data
\* Prices are in thousandths of a point: 4700.00 is 4700000.
QA == [open |-> 4700120, high |-> 4710000, low |-> 4680000, close |-> 4700000, volume |-> 1000]
QB == [open |-> 4700120, high |-> 4710000, low |-> 4680000, close |-> 4705250, volume |-> 1200]
\* A row whose open, 4700.125, has a third decimal.
QFine == [open |-> 4700125, high |-> 4710000, low |-> 4680000, close |-> 4700000, volume |-> 1000]
\* A row the provider could deliver whose high is below its low.
QBad == [open |-> 4700120, high |-> 4670000, low |-> 4680000, close |-> 4700000, volume |-> 1000]
Quotes == {QA, QB, QBad, QFine}

\* round(x, 2) of Python on a price in thousandths: to the nearest hundredth, a
\* tie going to the even hundredth (the ties used here, x.125, are exact in binary).
Round2(x) ==
    LET q == x \div 10
        rem == x % 10
    IN  IF rem < 5 THEN q * 10
        ELSE IF rem > 5 THEN (q + 1) * 10
        ELSE IF q % 2 = 0 THEN q * 10 ELSE (q + 1) * 10

\* 'open': round(open_price, 2), ... in the generators.
RoundRow(row) ==
    [row EXCEPT !.open = Round2(@), !.high = Round2(@), !.low = Round2(@), !.close = Round2(@)]

RawRow(t, q) ==
    [ts_event |-> t, open |-> q.open, high |-> q.high, low |-> q.low,
     close |-> q.close, volume |-> q.volume]

\* The frames a fetch can return: at most one row per day, in time order.
RECURSIVE FramesFrom(_)
FramesFrom(t) ==
    IF t > MaxTime THEN {<<>>}
    ELSE LET rest == FramesFrom(t + 1)
         IN  rest \cup {<<RawRow(t, q)>> \o f : q \in Quotes, f \in rest}
Frames == FramesFrom(1)

\* Frames whose rows all come from one revision of the provider's data: every row
\* has the first quote, or every row has the revised one.
RevisionFrames ==
    {f \in Frames : \E q \in {QA, QB} : \A k \in 1..Len(f) : f[k] = RawRow(f[k].ts_event, q)}

\* Numeric sanity of a row as the spec's Record Normalizer states it.
Sane(x) ==
    /\ x.high >= x.low
    /\ x.high >= x.open
    /\ x.high >= x.close
    /\ x.low <= x.open
    /\ x.low <= x.close
    /\ x.volume >= 0

\* A tuple whose prices are rounded to two decimals on the way to the store.
RoundedRecord(row, symbol) ==
    [time |-> row.ts_event, symbol |-> symbol, open |-> Round2(row.open),
     high |-> Round2(row.high), low |-> Round2(row.low), close |-> Round2(row.close),
     volume |-> row.volume]

\* The tuple built for one frame row (time, symbol, open, high, low, close, volume).
Record(row, symbol) ==
    [time |-> row.ts_event, symbol |-> symbol, open |-> row.open, high |-> row.high,
     low |-> row.low, close |-> row.close, volume |-> row.volume]

\* Records of the rows that pass the numeric sanity check only.
SaneRecords(df, symbol) ==
    LET all == [k \in 1..Len(df) |-> Record(df[k], symbol)]
    IN  SelectSeq(all, Sane)

\* records = [] ; for _, row in df.iterrows(): records.append((...))
Records(df, symbol) == [k \in 1..Len(df) |-> Record(df[k], symbol)]

\* ------------------------------------------------------------- the table
Key(x) == <<x.time, x.symbol>>
SameKey(x, y) == Key(x) = Key(y)
Matching(tbl, rec) == {x \in BagToSet(tbl) : SameKey(x, rec)}

\* INSERT ... without a conflict clause on a table without the primary key.
InsertPlain(tbl, rec) == [tbl |-> tbl (+) SetToBag({rec}), n |-> 1]

\* INSERT ... ON CONFLICT (time, symbol) DO NOTHING.
InsertDoNothing(tbl, rec) ==
    IF Matching(tbl, rec) = {} THEN [tbl |-> tbl (+) SetToBag({rec}), n |-> 1]
    ELSE [tbl |-> tbl, n |-> 0]

\* INSERT ... ON CONFLICT (time, symbol) DO UPDATE SET open = EXCLUDED.open, ...
\* for one row: the resulting table and the number of rows affected.
InsertOnConflict(tbl, rec) ==
    IF Matching(tbl, rec) = {} THEN [tbl |-> tbl (+) SetToBag({rec}), n |-> 1]
    ELSE LET old == CHOOSE x \in Matching(tbl, rec) : TRUE
         IN  [tbl |-> (tbl (-) SetToBag({old})) (+) SetToBag({rec}), n |-> 1]

\* The rows of a statement applied in order.
RECURSIVE ApplyAll(_, _)
ApplyAll(tbl, recs) ==
    IF recs = <<>> THEN [tbl |-> tbl, n |-> 0]
    ELSE LET one == InsertOnConflict(tbl, Head(recs))
             more == ApplyAll(one.tbl, Tail(recs))
         IN  [tbl |-> more.tbl, n |-> one.n + more.n]

Keys(recs) == {Key(recs[k]) : k \in 1..Len(recs)}
StoredKeys(tbl) == {Key(x) : x \in BagToSet(tbl)}
RowsFor(tbl, key) == {x \in BagToSet(tbl) : Key(x) = key}

\* ------------------------------------------------------------- the state
VARIABLES
    store,          \* committed rows of futures_data.ohlcv_1d (a bag of rows)
    tableExists,    \* whether futures_data.ohlcv_1d has been created
    variant,        \* the entry point each run executes
    pc,             \* where each run is in its entry point
    outcome,        \* how each finished run ended
    conn,           \* each run's psycopg2 connection
    df,             \* the frame the run's last fetch returned
    symbol,         \* the symbol the run's records carry
    dataset,        \* scripts/ingest_data.py: index of the dataset being tried
    tzinfo,         \* the time zone the fetched frame's timestamps carry, or "naive"
    metadata,       \* scripts/ingest_data.py: number of datasets listed
    idx,            \* position of the loop over rows (scripts/fetch_data.py) or
                    \* over symbols (scripts/generate_synthetic_data.py)
    rows_inserted,  \* scripts/fetch_data.py: the counter the loop keeps
    rowcount,       \* rows the server reported affected in the run's transaction
    commitLog,      \* history: the commits that landed, in order, with their rows
    seen,           \* history: the kinds of event each run has met
    processes,      \* how many of the processes are started (they may overlap)
    data_as_df,     \* adapters/databento.py: the raw daily rows, data.to_df()
    ref_as_df,      \* adapters/databento.py: the definition rows, ref.to_df()
    resolved        \* adapters/databento.py: what request_continuous_daily_data returned

vars ==
    <<store, tableExists, variant, pc, outcome, conn, df, tzinfo, symbol, dataset, metadata,
      idx, rows_inserted, rowcount, commitLog, seen, processes,
      data_as_df, ref_as_df, resolved>>

resolver == <<data_as_df, ref_as_df, resolved>>

\* The runs in the order their commits landed.
commitOrder == [k \in 1..Len(commitLog) |-> commitLog[k].run]

\* The rows the latest commit of each run made durable.
written ==
    [r \in Runs |->
        IF \E k \in 1..Len(commitLog) : commitLog[k].run = r
        THEN LET last == CHOOSE k \in 1..Len(commitLog) :
                            /\ commitLog[k].run = r
                            /\ \A j \in (k + 1)..Len(commitLog) : commitLog[j].run # r
             IN  commitLog[last].recs
        ELSE <<>>]

NoConn == [status |-> "none", tx |-> "idle", pending |-> <<>>, schema |-> FALSE, used |-> FALSE]

\* psycopg2.connect(...) succeeded: a fresh session, no transaction open.
get_db_connection ==
    [status |-> "open", tx |-> "idle", pending |-> <<>>, schema |-> FALSE, used |-> FALSE]

\* A session on which the bootstrap was skipped.
SchemaSkipped(c) == c

\* ensure_schema_exists(conn): CREATE SCHEMA / CREATE TABLE IF NOT EXISTS, conn.commit().
ensure_schema_exists(c) == [c EXCEPT !.schema = TRUE, !.tx = "idle"]

\* conn.close(): an open transaction is rolled back by the server.
Close(c) == [c EXCEPT !.status = "closed", !.tx = "idle", !.pending = <<>>]

\* conn.rollback()
Rollback(c) == [c EXCEPT !.tx = "idle", !.pending = <<>>]

\* cur.execute / execute_values reached the server and succeeded with rows recs.
Executed(c, recs) == [c EXCEPT !.tx = "active", !.pending = @ \o recs, !.used = TRUE]

\* A failed statement that leaves the transaction usable (a savepoint per row).
FailedOnlyStatement(c) == [c EXCEPT !.used = TRUE]

\* The statement reached the server and failed: the transaction is failed until
\* it is rolled back, and nothing it wrote will become visible.
Failed(c) == [c EXCEPT !.tx = "aborted", !.used = TRUE]

\* A row is locked for run r while another connection holds an uncommitted write of it.
Locked(r, keys) ==
    \E o \in Runs \ {r} :
        conn[o].status = "open" /\ Keys(conn[o].pending) \cap keys # {}

\* What the run's own transaction sees: the committed rows plus its own writes.
View(r) == ApplyAll(store, conn[r].pending).tbl

See(r, what) == seen' = [seen EXCEPT ![r] = @ \cup {what}]

\* The time zones a provider frame's timestamp column can carry.  With two
\* processes the provider delivers naive timestamps only.
ProviderZones == IF processes = 1 THEN {"naive", "UTC"} ELSE {"naive"}

\* pd.Timestamp(x).tz_localize(timezone.utc): a naive timestamp becomes UTC-aware,
\* a timestamp that already carries a zone raises TypeError.
tz_localize(z) == IF z = "naive" THEN "UTC" ELSE "TypeError"

\* The event of a statement being sent with timestamps of zone z.
Sent(z) == IF z = "naive" THEN "sent_naive" ELSE "sent_utc"

\* The run goes on to another step of its entry point.
Goto(r, next) ==
    /\ pc' = [pc EXCEPT ![r] = next]
    /\ UNCHANGED outcome

\* The run ends (return, sys.exit(1), or an exception leaving the entry point)
\* and its locals are gone.
End(r, how) ==
    /\ pc' = [pc EXCEPT ![r] = "done"]
    /\ outcome' = [outcome EXCEPT ![r] = how]
    /\ df' = [df EXCEPT ![r] = <<>>]
    /\ tzinfo' = [tzinfo EXCEPT ![r] = "naive"]
    /\ symbol' = [symbol EXCEPT ![r] = "ES"]
    /\ dataset' = [dataset EXCEPT ![r] = 0]
    /\ metadata' = [metadata EXCEPT ![r] = 0]
    /\ idx' = [idx EXCEPT ![r] = 0]

locals == <<df, tzinfo, symbol, dataset, metadata, idx>>

\* Tables the database can hold before the first run: at most one row per key.
RECURSIVE TablesFrom(_)
TablesFrom(t) ==
    IF t > MaxTime THEN {EmptyBag}
    ELSE LET rest == TablesFrom(t + 1)
         IN  rest \cup {SetToBag({Record(RawRow(t, QA), "ES")}) (+) b : b \in rest}

\* The table after an earlier ingestion of the first k days.
WindowTable(k) == SetToBag({Record(RawRow(t, QA), "ES") : t \in 1..k})

\* What a caller holds of request_continuous_daily_data: nothing yet, None, or a
\* frame of rows with the count of the rows left out.
NotReturned == [kind |-> "unset", rows |-> <<>>, excluded |-> 0]
None == [kind |-> "None", rows |-> <<>>, excluded |-> 0]

\* Everything but the database and the scheduling, before any process starts.
InitRuns ==
    /\ variant = [r \in Runs |-> "none"]
    /\ pc = [r \in Runs |-> "idle"]
    /\ outcome = [r \in Runs |-> "none"]
    /\ conn = [r \in Runs |-> NoConn]
    /\ df = [r \in Runs |-> <<>>]
    /\ tzinfo = [r \in Runs |-> "naive"]
    /\ symbol = [r \in Runs |-> "ES"]
    /\ dataset = [r \in Runs |-> 0]
    /\ metadata = [r \in Runs |-> 0]
    /\ idx = [r \in Runs |-> 0]
    /\ rows_inserted = [r \in Runs |-> 0]
    /\ rowcount = [r \in Runs |-> 0]
    /\ commitLog = <<>>
    /\ seen = [r \in Runs |-> {}]
    /\ data_as_df = [r \in Runs |-> <<>>]
    /\ ref_as_df = [r \in Runs |-> {}]
    /\ resolved = [r \in Runs |-> NotReturned]

\* One process, on a database that may already hold rows.
Init ==
    /\ processes = 1
    /\ tableExists \in BOOLEAN
    /\ store \in (IF tableExists THEN TablesFrom(1) ELSE {EmptyBag})
    /\ InitRuns

\* Two processes, started in any order and overlapping or not.
InitTwo ==
    /\ processes = 2
    /\ tableExists \in BOOLEAN
    /\ store \in (IF tableExists THEN {WindowTable(k) : k \in 0..MaxTime} ELSE {EmptyBag})
    /\ InitRuns

\* What a fetch that finds data can return.
FetchResults == (IF processes = 1 THEN Frames ELSE RevisionFrames) \ {<<>>}

\* What generate_synthetic_data can return: a row for every business day of its
\* fixed window, each with low <= open, close <= high, its prices rounded.
GeneratedFrames ==
    LET drawn == {f \in FetchResults :
                    /\ Len(f) = MaxTime
                    /\ \A k \in 1..Len(f) : \E q \in {QA, QB, QFine} : f[k] = RawRow(k, q)}
    IN  {[k \in 1..Len(f) |-> RoundRow(f[k])] : f \in drawn}

\* How many datasets list_datasets() can return.  With two processes the provider
\* lists at most one, which keeps the state space of their interleavings small.
DatasetCounts == IF processes = 1 THEN 0..MaxDatasets ELSE 0..1

\* The first step of each entry point.
FirstStep(v) ==
    CASE v = "fetch_data" -> "connect"
      [] v = "ingest_data" -> "list"
      [] v = "tn_ingest" -> "fetch"
      [] v = "generate_synthetic" -> "connect"
      [] v = "request_continuous" -> "get_range"

\* python <script>: a process starts one of the entry points.
Launch(r) ==
    /\ pc[r] = "idle"
    /\ r <= processes
    /\ \A o \in Runs : o < r => pc[o] # "idle"
    /\ \E v \in Variants :
        /\ variant' = [variant EXCEPT ![r] = v]
        /\ pc' = [pc EXCEPT ![r] = FirstStep(v)]
    /\ UNCHANGED <<store, tableExists, outcome, conn, locals, rows_inserted, rowcount,
                   commitLog, seen, processes, resolver>>

\* The process is terminated: the server drops the session and its transaction.
Kill(r) ==
    /\ pc[r] \notin {"idle", "done"}
    /\ End(r, "killed")
    /\ data_as_df' = [data_as_df EXCEPT ![r] = <<>>]
    /\ ref_as_df' = [ref_as_df EXCEPT ![r] = {}]
    /\ conn' = [conn EXCEPT ![r] = IF @.status = "open" THEN Close(@) ELSE @]
    /\ UNCHANGED <<store, tableExists, variant, rows_inserted, rowcount,
                   commitLog, seen, processes, resolved>>

\* A load that empties the table before it writes its rows.
CommitReplacesTable(r) ==
    IF conn[r].tx = "active"
    THEN /\ store' = ApplyAll(EmptyBag, conn[r].pending).tbl
         /\ commitLog' = Append(commitLog, [run |-> r, recs |-> conn[r].pending])
    ELSE UNCHANGED <<store, commitLog>>

\* conn.commit() reaching the server with the run's transaction in state tx:
\* an active transaction becomes durable, a failed one is rolled back.
CommitEffect(r) ==
    IF conn[r].tx = "active"
    THEN /\ store' = ApplyAll(store, conn[r].pending).tbl
         /\ commitLog' = Append(commitLog, [run |-> r, recs |-> conn[r].pending])
    ELSE UNCHANGED <<store, commitLog>>

\* The rows execute_values sends in its one INSERT statement.
ExecuteValues(r) == Records(df[r], symbol[r])

\* ------------------------------- trade_ngin/scripts/ingest_data.py ("tn_ingest")
\* An empty frame reported as an error.
TN_NoDataRaises(r) ==
    /\ End(r, "raised")
    /\ See(r, "fetch_empty")

\* if df.empty: logging.warning(...); return
TN_NoData(r) ==
    /\ End(r, "ok")
    /\ See(r, "fetch_empty")

\* client.timeseries.get_range(...).to_df(), and the two early returns.
TN_Fetch(r) ==
    /\ variant[r] = "tn_ingest" /\ pc[r] = "fetch"
    /\ \/ \* except Exception: logging.error(...); return
          /\ End(r, "ok")
          /\ See(r, "fetch_fail")
       \/ TN_NoData(r)
       \/ \E f \in FetchResults, z \in ProviderZones :
            /\ df' = [df EXCEPT ![r] = f]
            /\ tzinfo' = [tzinfo EXCEPT ![r] = z]
            /\ Goto(r, "connect")
            /\ See(r, "fetch_data")
            /\ UNCHANGED <<symbol, dataset, metadata, idx>>
    /\ UNCHANGED <<store, tableExists, variant, conn, rows_inserted, rowcount,
                   commitLog, processes, resolver>>

\* conn = get_db_connection() inside the try; on failure the finally block reads
\* the unbound local conn, and that exception leaves the function.
TN_Connect(r) ==
    /\ variant[r] = "tn_ingest" /\ pc[r] = "connect"
    /\ \/ /\ conn' = [conn EXCEPT ![r] = get_db_connection]
          /\ Goto(r, "schema")
          /\ UNCHANGED <<locals, seen>>
       \/ /\ End(r, "raised")
          /\ See(r, "connect_fail")
          /\ UNCHANGED conn
    /\ UNCHANGED <<store, tableExists, variant, rows_inserted, rowcount,
                   commitLog, processes, resolver>>

\* ensure_schema_exists(conn); a failure is logged and the finally block closes.
TN_Schema(r) ==
    /\ variant[r] = "tn_ingest" /\ pc[r] = "schema"
    /\ \/ /\ conn' = [conn EXCEPT ![r] = ensure_schema_exists(@)]
          /\ tableExists' = TRUE
          /\ Goto(r, "insert")
          /\ UNCHANGED <<locals, seen>>
       \/ /\ conn' = [conn EXCEPT ![r] = Close(@)]
          /\ End(r, "ok")
          /\ See(r, "schema_fail")
          /\ UNCHANGED tableExists
    /\ UNCHANGED <<store, variant, rows_inserted, rowcount,
                   commitLog, processes, resolver>>

\* execute_values(cur, "INSERT ... ON CONFLICT ... DO UPDATE ...", records): the
\* statement waits while another transaction holds one of its rows.
TN_Insert(r) ==
    /\ variant[r] = "tn_ingest" /\ pc[r] = "insert"
    /\ \/ /\ tz_localize(tzinfo[r]) = "UTC"
          /\ tableExists
          /\ ~Locked(r, Keys(ExecuteValues(r)))
          /\ conn' = [conn EXCEPT ![r] = Executed(@, ExecuteValues(r))]
          /\ rowcount' = [rowcount EXCEPT ![r] = ApplyAll(View(r), ExecuteValues(r)).n]
          /\ Goto(r, "commit")
          /\ See(r, Sent(tz_localize(tzinfo[r])))
          /\ UNCHANGED locals
       \/ \* the statement fails: logged, then the finally block closes
          /\ tz_localize(tzinfo[r]) = "UTC"
          /\ conn' = [conn EXCEPT ![r] = Close(Failed(@))]
          /\ End(r, "ok")
          /\ seen' = [seen EXCEPT ![r] = @ \cup {"insert_fail", Sent(tz_localize(tzinfo[r]))}]
          /\ UNCHANGED rowcount
       \/ \* building the records raises (tz_localize on a timestamp with a zone):
          \* logged, no statement is sent, the finally block closes
          /\ tz_localize(tzinfo[r]) = "TypeError"
          /\ conn' = [conn EXCEPT ![r] = Close(@)]
          /\ End(r, "ok")
          /\ See(r, "records_fail")
          /\ UNCHANGED rowcount
    /\ UNCHANGED <<store, tableExists, variant, rows_inserted,
                   commitLog, processes, resolver>>

\* conn.commit(), then the finally block's conn.close().
TN_Commit(r) ==
    /\ variant[r] = "tn_ingest" /\ pc[r] = "commit"
    /\ \/ /\ CommitEffect(r)
          /\ UNCHANGED seen
       \/ \* the commit fails (connection lost): logged, nothing becomes durable
          /\ See(r, "commit_fail")
          /\ UNCHANGED <<store, commitLog>>
    /\ conn' = [conn EXCEPT ![r] = Close(@)]
    /\ End(r, "ok")
    /\ UNCHANGED <<tableExists, variant, rows_inserted, rowcount, processes, resolver>>

\* ------------------------------------------- scripts/fetch_data.py ("fetch_data")
\* An except block that logs and returns instead of exiting.
FD_Swallow(r, cause) ==
    /\ conn' = [conn EXCEPT ![r] = Close(Rollback(@))]
    /\ End(r, "ok")
    /\ See(r, cause)

\* The except / finally of fetch_and_load_data once conn is bound:
\* conn.rollback(); sys.exit(1); conn.close().
FD_Abort(r, cause) ==
    /\ conn' = [conn EXCEPT ![r] = Close(Rollback(@))]
    /\ End(r, "exit1")
    /\ See(r, cause)

\* conn = get_db_connection(); on failure conn is still None: sys.exit(1).
FD_Connect(r) ==
    /\ variant[r] = "fetch_data" /\ pc[r] = "connect"
    /\ \/ /\ conn' = [conn EXCEPT ![r] = get_db_connection]
          /\ Goto(r, "schema")
          /\ UNCHANGED <<locals, seen>>
       \/ /\ End(r, "exit1")
          /\ See(r, "connect_fail")
          /\ UNCHANGED conn
    /\ UNCHANGED <<store, tableExists, variant, rows_inserted, rowcount,
                   commitLog, processes, resolver>>

\* ensure_schema_exists(conn), which re-raises its failure.
FD_Schema(r) ==
    /\ variant[r] = "fetch_data" /\ pc[r] = "schema"
    /\ \/ /\ conn' = [conn EXCEPT ![r] = ensure_schema_exists(@)]
          /\ tableExists' = TRUE
          /\ Goto(r, "fetch")
          /\ UNCHANGED <<locals, seen>>
       \/ /\ FD_Abort(r, "schema_fail")
          /\ UNCHANGED tableExists
    /\ UNCHANGED <<store, variant, rows_inserted, rowcount,
                   commitLog, processes, resolver>>

\* client.get_historical_ohlcv(...): a failure is re-raised, None or an empty
\* frame returns through the finally block.
FD_Fetch(r) ==
    /\ variant[r] = "fetch_data" /\ pc[r] = "fetch"
    /\ \/ /\ FD_Abort(r, "fetch_fail")
          /\ UNCHANGED rows_inserted
       \/ /\ conn' = [conn EXCEPT ![r] = Close(@)]
          /\ End(r, "ok")
          /\ See(r, "fetch_empty")
          /\ UNCHANGED rows_inserted
       \/ \E f \in FetchResults, z \in ProviderZones :
            /\ df' = [df EXCEPT ![r] = f]
            /\ tzinfo' = [tzinfo EXCEPT ![r] = z]
            /\ idx' = [idx EXCEPT ![r] = 1]
            /\ rows_inserted' = [rows_inserted EXCEPT ![r] = 0]
            /\ Goto(r, "insert")
            /\ See(r, "fetch_data")
            /\ UNCHANGED <<conn, symbol, dataset, metadata>>
    /\ UNCHANGED <<store, tableExists, variant, rowcount, commitLog, processes, resolver>>

\* One pass of "for _, row in df.iterrows()": cur.execute(INSERT ... ON CONFLICT ...)
\* inside try / except Exception: log, continue.
FD_InsertRow(r) ==
    /\ variant[r] = "fetch_data" /\ pc[r] = "insert"
    /\ LET rec == Record(df[r][idx[r]], symbol[r])
       IN  \/ \* the statement succeeds; it waits while the row is locked
              /\ tableExists
              /\ conn[r].tx # "aborted"
              /\ ~Locked(r, {Key(rec)})
              /\ conn' = [conn EXCEPT ![r] = Executed(@, <<rec>>)]
              /\ rowcount' = [rowcount EXCEPT ![r] = @ + InsertOnConflict(View(r), rec).n]
              /\ rows_inserted' = [rows_inserted EXCEPT ![r] = @ + 1]
              /\ See(r, Sent(tzinfo[r]))
           \/ \* the server rejects the statement (constraint, deadlock, or the
              \* transaction has already failed)
              /\ conn' = [conn EXCEPT ![r] = Failed(@)]
              /\ seen' = [seen EXCEPT ![r] = @ \cup {"insert_fail", Sent(tzinfo[r])}]
              /\ UNCHANGED <<rowcount, rows_inserted>>
           \/ \* the exception is raised before the statement is sent (a value
              \* psycopg2 cannot adapt): the transaction is untouched
              /\ See(r, "insert_skip")
              /\ UNCHANGED <<conn, rowcount, rows_inserted>>
    /\ idx' = [idx EXCEPT ![r] = @ + 1]
    /\ Goto(r, IF idx[r] = Len(df[r]) THEN "commit" ELSE "insert")
    /\ UNCHANGED <<store, tableExists, variant, df, tzinfo, symbol, dataset, metadata,
                   commitLog, processes, resolver>>

\* conn.commit() after the loop, the log of rows_inserted, the finally block.
FD_Commit(r) ==
    /\ variant[r] = "fetch_data" /\ pc[r] = "commit"
    /\ \/ /\ CommitEffect(r)
          /\ conn' = [conn EXCEPT ![r] = Close(@)]
          /\ End(r, "ok")
          /\ UNCHANGED seen
       \/ \* the commit fails (connection lost)
          /\ FD_Abort(r, "commit_fail")
          /\ UNCHANGED <<store, commitLog>>
    /\ UNCHANGED <<tableExists, variant, rows_inserted, rowcount, processes, resolver>>

\* ------------------------------------------ scripts/ingest_data.py ("ingest_data")
\* "continue" in the loop over metadata: the next dataset, or the end of the loop
\* and of the function.  df and symbol are rebound before they are read again.
NextDataset(r) ==
    IF dataset[r] < metadata[r]
    THEN /\ dataset' = [dataset EXCEPT ![r] = @ + 1]
         /\ df' = [df EXCEPT ![r] = <<>>]
         /\ tzinfo' = [tzinfo EXCEPT ![r] = "naive"]
         /\ symbol' = [symbol EXCEPT ![r] = "ES"]
         /\ Goto(r, "fetch")
         /\ UNCHANGED <<metadata, idx>>
    ELSE End(r, "ok")

\* metadata = client.metadata.list_datasets(); a failure reaches the outer except.
ID_ListDatasets(r) ==
    /\ variant[r] = "ingest_data" /\ pc[r] = "list"
    /\ \/ /\ End(r, "ok")
          /\ See(r, "list_fail")
       \/ \E n \in DatasetCounts :
            /\ UNCHANGED seen
            /\ IF n = 0
               THEN End(r, "ok")
               ELSE /\ metadata' = [metadata EXCEPT ![r] = n]
                    /\ dataset' = [dataset EXCEPT ![r] = 1]
                    /\ Goto(r, "fetch")
                    /\ UNCHANGED <<df, tzinfo, symbol, idx>>
    /\ UNCHANGED <<store, tableExists, variant, conn, rows_inserted, rowcount,
                   commitLog, processes, resolver>>

\* list_symbols(dataset) and get_range(...).to_df() for symbols[0].
ID_Fetch(r) ==
    /\ variant[r] = "ingest_data" /\ pc[r] = "fetch"
    /\ \/ \* one of the provider calls raises: except ...: continue
          /\ NextDataset(r)
          /\ See(r, "fetch_fail")
       \/ \* no symbols, or an empty frame: the loop body is over
          /\ NextDataset(r)
          /\ See(r, "fetch_empty")
       \/ \E f \in FetchResults, s \in Symbols, z \in ProviderZones :
            /\ df' = [df EXCEPT ![r] = f]
            /\ tzinfo' = [tzinfo EXCEPT ![r] = z]
            /\ symbol' = [symbol EXCEPT ![r] = s]
            /\ Goto(r, "connect")
            /\ See(r, "fetch_data")
            /\ UNCHANGED <<dataset, metadata, idx>>
    /\ UNCHANGED <<store, tableExists, variant, conn, rows_inserted, rowcount,
                   commitLog, processes, resolver>>

\* conn = get_db_connection(); a connection left open by an earlier dataset is
\* replaced and never closed by the code.
ID_Connect(r) ==
    /\ variant[r] = "ingest_data" /\ pc[r] = "connect"
    /\ \/ /\ conn' = [conn EXCEPT ![r] = get_db_connection]
          /\ Goto(r, "schema")
          /\ UNCHANGED <<locals, seen>>
       \/ /\ NextDataset(r)
          /\ See(r, "connect_fail")
          /\ UNCHANGED conn
    /\ UNCHANGED <<store, tableExists, variant, rows_inserted, rowcount,
                   commitLog, processes, resolver>>

\* ensure_schema_exists(conn); on failure: continue, conn is not closed.
ID_Schema(r) ==
    /\ variant[r] = "ingest_data" /\ pc[r] = "schema"
    /\ \/ /\ conn' = [conn EXCEPT ![r] = ensure_schema_exists(@)]
          /\ tableExists' = TRUE
          /\ Goto(r, "insert")
          /\ UNCHANGED <<locals, seen>>
       \/ /\ conn' = [conn EXCEPT ![r].tx = "aborted"]
          /\ NextDataset(r)
          /\ See(r, "schema_fail")
          /\ UNCHANGED tableExists
    /\ UNCHANGED <<store, variant, rows_inserted, rowcount,
                   commitLog, processes, resolver>>

\* execute_values(cur, "INSERT ... ON CONFLICT ... DO UPDATE ...", records)
ID_Insert(r) ==
    /\ variant[r] = "ingest_data" /\ pc[r] = "insert"
    /\ \/ /\ tz_localize(tzinfo[r]) = "UTC"
          /\ tableExists
          /\ ~Locked(r, Keys(ExecuteValues(r)))
          /\ conn' = [conn EXCEPT ![r] = Executed(@, ExecuteValues(r))]
          /\ rowcount' = [rowcount EXCEPT ![r] = ApplyAll(View(r), ExecuteValues(r)).n]
          /\ Goto(r, "commit")
          /\ See(r, Sent(tz_localize(tzinfo[r])))
          /\ UNCHANGED locals
       \/ \* the statement fails: continue, the failed transaction stays open
          /\ tz_localize(tzinfo[r]) = "UTC"
          /\ conn' = [conn EXCEPT ![r] = Failed(@)]
          /\ NextDataset(r)
          /\ seen' = [seen EXCEPT ![r] = @ \cup {"insert_fail", Sent(tz_localize(tzinfo[r]))}]
          /\ UNCHANGED rowcount
       \/ \* building the records raises (tz_localize on a timestamp with a zone):
          \* continue, no statement is sent, the connection stays open
          /\ tz_localize(tzinfo[r]) = "TypeError"
          /\ NextDataset(r)
          /\ See(r, "records_fail")
          /\ UNCHANGED <<conn, rowcount>>
    /\ UNCHANGED <<store, tableExists, variant, rows_inserted,
                   commitLog, processes, resolver>>

\* A loop that goes on to the next dataset after a successful load.
ID_CommitContinues(r) ==
    /\ variant[r] = "ingest_data" /\ pc[r] = "commit"
    /\ \/ /\ CommitEffect(r)
          /\ conn' = [conn EXCEPT ![r] = Close(@)]
          /\ NextDataset(r)
          /\ UNCHANGED seen
       \/ /\ conn' = [conn EXCEPT ![r].tx = "aborted", ![r].pending = <<>>]
          /\ NextDataset(r)
          /\ See(r, "commit_fail")
          /\ UNCHANGED <<store, commitLog>>
    /\ UNCHANGED <<tableExists, variant, rows_inserted, rowcount, processes, resolver>>

\* conn.commit(); conn.close(); return -- or, when the commit fails, continue.
ID_Commit(r) ==
    /\ variant[r] = "ingest_data" /\ pc[r] = "commit"
    /\ \/ /\ CommitEffect(r)
          /\ conn' = [conn EXCEPT ![r] = Close(@)]
          /\ End(r, "ok")
          /\ UNCHANGED seen
       \/ /\ conn' = [conn EXCEPT ![r].tx = "aborted", ![r].pending = <<>>]
          /\ NextDataset(r)
          /\ See(r, "commit_fail")
          /\ UNCHANGED <<store, commitLog>>
    /\ UNCHANGED <<tableExists, variant, rows_inserted, rowcount, processes, resolver>>

\* ------------------------- scripts/generate_synthetic_data.py ("generate_synthetic")
\* The end of one pass of "for symbol, base_price in symbols.items()", the
\* connection being left as c: the next symbol, or the end of the loop and the
\* finally block's conn.close().
GS_NextSymbol(r, c) ==
    IF idx[r] < Len(SymbolList)
    THEN /\ conn' = [conn EXCEPT ![r] = c]
         /\ idx' = [idx EXCEPT ![r] = @ + 1]
         /\ df' = [df EXCEPT ![r] = <<>>]
         /\ tzinfo' = [tzinfo EXCEPT ![r] = "naive"]
         /\ symbol' = [symbol EXCEPT ![r] = "ES"]
         /\ Goto(r, "insert")
         /\ UNCHANGED <<dataset, metadata>>
    ELSE /\ conn' = [conn EXCEPT ![r] = Close(c)]
         /\ End(r, "ok")

\* conn = get_db_connection() inside the try; on failure the finally block reads
\* the unbound local conn, and that exception leaves the function.
GS_Connect(r) ==
    /\ variant[r] = "generate_synthetic" /\ pc[r] = "connect"
    /\ \/ /\ conn' = [conn EXCEPT ![r] = get_db_connection]
          /\ Goto(r, "schema")
          /\ UNCHANGED <<locals, seen>>
       \/ /\ End(r, "raised")
          /\ See(r, "connect_fail")
          /\ UNCHANGED conn
    /\ UNCHANGED <<store, tableExists, variant, rows_inserted, rowcount,
                   commitLog, processes, resolver>>

\* ensure_schema_exists(conn); a failure is logged and the finally block closes.
GS_Schema(r) ==
    /\ variant[r] = "generate_synthetic" /\ pc[r] = "schema"
    /\ \/ /\ conn' = [conn EXCEPT ![r] = ensure_schema_exists(@)]
          /\ tableExists' = TRUE
          /\ idx' = [idx EXCEPT ![r] = 1]
          /\ Goto(r, "insert")
          /\ UNCHANGED <<df, tzinfo, symbol, dataset, metadata, seen>>
       \/ /\ conn' = [conn EXCEPT ![r] = Close(@)]
          /\ End(r, "ok")
          /\ See(r, "schema_fail")
          /\ UNCHANGED tableExists
    /\ UNCHANGED <<store, variant, rows_inserted, rowcount, commitLog, processes, resolver>>

\* df = generate_synthetic_data(symbol, base_price), the records built from it,
\* and the execute_values of insert_batch; a failure: log, continue.
GS_Insert(r) ==
    /\ variant[r] = "generate_synthetic" /\ pc[r] = "insert"
    /\ \/ \E f \in GeneratedFrames :
            LET recs == Records(f, SymbolList[idx[r]])
            IN  /\ tableExists
                /\ conn[r].tx # "aborted"
                /\ ~Locked(r, Keys(recs))
                /\ conn' = [conn EXCEPT ![r] = Executed(@, recs)]
                /\ rowcount' = [rowcount EXCEPT ![r] = ApplyAll(View(r), recs).n]
                /\ df' = [df EXCEPT ![r] = f]
                /\ tzinfo' = [tzinfo EXCEPT ![r] = "UTC"]
                /\ symbol' = [symbol EXCEPT ![r] = SymbolList[idx[r]]]
                /\ Goto(r, "commit")
                /\ See(r, Sent("UTC"))
                /\ UNCHANGED <<dataset, metadata, idx>>
       \/ \* the statement fails; the failed transaction stays open
          /\ GS_NextSymbol(r, Failed(conn[r]))
          /\ See(r, "insert_fail")
          /\ UNCHANGED rowcount
    /\ UNCHANGED <<store, tableExists, variant, rows_inserted, commitLog, processes, resolver>>

\* conn.commit() at the end of insert_batch.
GS_Commit(r) ==
    /\ variant[r] = "generate_synthetic" /\ pc[r] = "commit"
    /\ \/ /\ CommitEffect(r)
          /\ GS_NextSymbol(r, Rollback(conn[r]))
          /\ UNCHANGED seen
       \/ \* the commit fails (connection lost): log, continue
          /\ GS_NextSymbol(r, [conn[r] EXCEPT !.tx = "aborted", !.pending = <<>>])
          /\ See(r, "commit_fail")
          /\ UNCHANGED <<store, commitLog>>
    /\ UNCHANGED <<tableExists, variant, rows_inserted, rowcount, processes, resolver>>

\* ---------------------- trade_ngin/adapters/databento.py ("request_continuous")
\* The raw frames of a continuous-symbol request: at most one row per day, each
\* with the instrument the symbol resolved to that day.
RECURSIVE RawFramesFrom(_)
RawFramesFrom(t) ==
    IF t > MaxTime THEN {<<>>}
    ELSE LET rest == RawFramesFrom(t + 1)
         IN  rest \cup {<<[ts_event |-> t, instrument_id |-> i]>> \o f :
                            i \in Instruments, f \in rest}

\* The definition rows the provider can return, each a (date, instrument).
Definitions == Times \X Instruments

\* What the two provider calls can return.  With two processes the request is
\* answered with a row for every day and all or none of the definitions.
RawResults ==
    IF processes = 1 THEN RawFramesFrom(1)
    ELSE {f \in RawFramesFrom(1) : Len(f) = MaxTime /\ \A k \in 1..Len(f) : f[k].instrument_id = 101}
RefResults == IF processes = 1 THEN SUBSET Definitions ELSE {{}, Definitions}

\* data = client.timeseries.get_range(...); a failure is re-raised as ValueError.
RC_GetRange(r) ==
    /\ variant[r] = "request_continuous" /\ pc[r] = "get_range"
    /\ \/ /\ End(r, "raised")
          /\ UNCHANGED data_as_df
       \/ \E f \in RawResults :
            /\ data_as_df' = [data_as_df EXCEPT ![r] = f]
            /\ Goto(r, "definitions")
            /\ UNCHANGED locals
    /\ UNCHANGED <<store, tableExists, variant, conn, rows_inserted, rowcount,
                   commitLog, seen, processes, ref_as_df, resolved>>

\* ref = data.request_full_definitions(client=client), outside any try.
RC_Definitions(r) ==
    /\ variant[r] = "request_continuous" /\ pc[r] = "definitions"
    /\ \/ /\ End(r, "raised")
          /\ data_as_df' = [data_as_df EXCEPT ![r] = <<>>]
          /\ UNCHANGED ref_as_df
       \/ \E d \in RefResults :
            /\ ref_as_df' = [ref_as_df EXCEPT ![r] = d]
            /\ Goto(r, "return")
            /\ UNCHANGED <<locals, data_as_df>>
    /\ UNCHANGED <<store, tableExists, variant, conn, rows_inserted, rowcount,
                   commitLog, seen, processes, resolved>>

\* data_as_df = data.to_df(); ref_as_df = ref.to_df(); the body ends after the
\* comment that follows, so the call returns None.
RC_Return(r) ==
    /\ variant[r] = "request_continuous" /\ pc[r] = "return"
    /\ resolved' = [resolved EXCEPT ![r] = None]
    /\ data_as_df' = [data_as_df EXCEPT ![r] = <<>>]
    /\ ref_as_df' = [ref_as_df EXCEPT ![r] = {}]
    /\ End(r, "ok")
    /\ UNCHANGED <<store, tableExists, variant, conn, rows_inserted, rowcount,
                   commitLog, seen, processes>>

Next ==
    \E r \in Runs :
        \/ Launch(r)
        \/ Kill(r)
        \/ TN_Fetch(r)
        \/ TN_Connect(r)
        \/ TN_Schema(r)
        \/ TN_Insert(r)
        \/ TN_Commit(r)
        \/ FD_Connect(r)
        \/ FD_Schema(r)
        \/ FD_Fetch(r)
        \/ FD_InsertRow(r)
        \/ FD_Commit(r)
        \/ ID_ListDatasets(r)
        \/ ID_Fetch(r)
        \/ ID_Connect(r)
        \/ ID_Schema(r)
        \/ ID_Insert(r)
        \/ ID_Commit(r)
        \/ GS_Connect(r)
        \/ GS_Schema(r)
        \/ GS_Insert(r)
        \/ GS_Commit(r)
        \/ RC_GetRange(r)
        \/ RC_Definitions(r)
        \/ RC_Return(r)

Spec == Init /\ [][Next]_vars

SpecTwo == InitTwo /\ [][Next]_vars

\* ---------------------------------------------------------------- claims
\* The step is the commit of run r landing.
Commits(r) == commitOrder' = Append(commitOrder, r)

LastCommitter == commitOrder[Len(commitOrder)]

\* C1: when a run commits a batch B (pairwise distinct keys) and the commit that
\* landed just before it was of the same batch B, the store is left as the first
\* commit left it, and the rows the server reports affected for the second write
\* are |B|.
C1_Idempotent ==
    [][\A r \in Runs :
        (/\ Commits(r)
         /\ commitOrder # <<>>
         /\ written'[r] = written[LastCommitter])
        => /\ store' = store
           /\ rowcount[r] = Len(written'[r])]_vars

\* Both runs committed the same non-empty batch, one after the other.
C1_Witness ==
    /\ Len(commitOrder) = 2
    /\ written[1] = written[2]
    /\ written[1] # <<>>

\* C2: in every reachable state no two rows of futures_data.ohlcv_1d share a
\* (time, symbol): every row occurs once and rows with equal keys are the same row.
C2_KeyUnique ==
    \A x \in BagToSet(store) :
        /\ CopiesIn(x, store) = 1
        /\ \A y \in BagToSet(store) : SameKey(x, y) => x = y

\* Two different batches with a common key were both committed.
C2_Witness ==
    /\ Len(commitOrder) = 2
    /\ written[1] # written[2]
    /\ Keys(written[1]) \cap Keys(written[2]) # {}

\* C3: when a commit lands that carries a record whose key is already stored with
\* other values, afterwards the store holds exactly one row for that key, and it is
\* the record of the later write.
C3_LastWriteWins ==
    [][\A r \in Runs :
        Commits(r) =>
            \A k \in 1..Len(written'[r]) :
                LET rec == written'[r][k]
                IN  (RowsFor(store, Key(rec)) # {} /\ rec \notin RowsFor(store, Key(rec)))
                    => /\ RowsFor(store', Key(rec)) = {rec}
                       /\ CopiesIn(rec, store') = 1]_vars

\* ES on day 1 was committed with close 4700.00, then committed again with close
\* 4705.25, and the store holds the one row with 4705.25.
C3_Witness ==
    /\ Len(commitOrder) = 2
    /\ \E i \in 1..Len(written[commitOrder[1]]), j \in 1..Len(written[commitOrder[2]]) :
        LET old == written[commitOrder[1]][i]
            new == written[commitOrder[2]][j]
        IN  /\ Key(old) = <<1, "ES">> /\ Key(new) = <<1, "ES">>
            /\ old.close = 4700000 /\ new.close = 4705250
            /\ RowsFor(store, <<1, "ES">>) = {new}

\* C4: whenever the store changes, the change is the commit of one run and applies
\* every record of that run's batch (the frame it fetched), also when the insert
\* of one of its rows failed; no step applies a strict non-empty part of a batch.
C4_BatchAtomic ==
    [][store' # store =>
        \E r \in Runs :
            /\ Commits(r)
            /\ store' = ApplyAll(store, ExecuteValues(r)).tbl]_vars

\* Some insert or commit of run r failed at the server.
StoreFailed(r) == seen[r] \cap {"schema_fail", "insert_fail", "commit_fail"} # {}

Finished(r) == pc[r] = "done" /\ outcome[r] # "killed"

C9_BootstrapFirst ==
    \A r \in Runs :
        conn[r].used => conn[r].schema /\ tableExists

\* A session has an insert pending in its open transaction.
C9_Witness ==
    \E r \in Runs :
        /\ conn[r].status = "open"
        /\ conn[r].used
        /\ conn[r].tx = "active"
        /\ conn[r].pending # <<>>

\* The commits that carried a record for the key, by position, and their runs.
CommitsOf(key) == {k \in 1..Len(commitLog) : key \in Keys(commitLog[k].recs)}
Writers(key) == {commitLog[k].run : k \in CommitsOf(key)}

\* The record for the key in the commit that landed last among those carrying it.
LastWrite(key) ==
    LET last == CHOOSE k \in CommitsOf(key) : \A j \in CommitsOf(key) : j <= k
        recs == commitLog[last].recs
    IN  CHOOSE x \in {recs[k] : k \in 1..Len(recs)} : Key(x) = key

\* C10: with two runs interleaved in any way, for every key any of them committed
\* the store holds exactly one row, and it is the record of the commit that landed
\* last among those that wrote the key; so a key written by one run only holds
\* that run's values.
C10_LastCommitWins ==
    \A key \in Times \X Symbols :
        CommitsOf(key) # {} =>
            /\ RowsFor(store, key) = {LastWrite(key)}
            /\ CopiesIn(LastWrite(key), store) = 1

\* Both runs are over; the run started second committed day 1 of ES before the
\* run started first committed it with other values, and day 2 of ES was written
\* by one of them only.
C10_Witness ==
    /\ \A r \in Runs : pc[r] = "done"
    /\ Writers(<<1, "ES">>) = {1, 2}
    /\ \E i, j \in CommitsOf(<<1, "ES">>) :
        /\ i < j
        /\ commitLog[i].run = 2 /\ commitLog[j].run = 1
        /\ commitLog[i].recs[1] # commitLog[j].recs[1]
    /\ Cardinality(Writers(<<2, "ES">>)) = 1

\* The raw row has a definition row for its date and instrument.
Matched(row, ref) == <<row.ts_event, row.instrument_id>> \in ref

\* C11: when request_continuous_daily_data returns from a request in which some
\* raw row has a definition, what it returns is a frame holding exactly the raw rows that have a definition for their (date,
\* instrument), in order, and the count of excluded rows is the number of raw rows
\* without one.
C11_DropUnmatched ==
    [][\A r \in Runs :
        (/\ pc[r] = "return" /\ pc'[r] = "done" /\ outcome'[r] = "ok"
         /\ \E k \in 1..Len(data_as_df[r]) : Matched(data_as_df[r][k], ref_as_df[r])) =>
            LET keep(row) == Matched(row, ref_as_df[r])
                kept == SelectSeq(data_as_df[r], keep)
            IN  /\ resolved'[r].kind = "frame"
                /\ resolved'[r].rows = kept
                /\ resolved'[r].excluded = Len(data_as_df[r]) - Len(kept)]_vars

PricesOf(x) == <<x.open, x.high, x.low, x.close>>
TwoDecimals(x) == \A k \in 1..4 : PricesOf(x)[k] % 10 = 0

C13_NoNaiveTimestamp ==
    \A r \in Runs : "sent_naive" \notin seen[r]

\* C14: in every entry point, a run that has ended by itself (commit, empty
\* result, failed write, abort) has no opened connection left unclosed.
C14_ConnectionClosed ==
    \A r \in Runs : Finished(r) => conn[r].status # "open"

\* C15: in scripts/fetch_data.py, when the insert of a row has failed inside the
\* loop and the run reaches its final commit and its log line, the commit stores
\* the rows whose insert did not fail, and their number is the rows_inserted the
\* run logs.
C15_SkipBadKeepGood ==
    [][\A r \in Runs :
        (/\ variant[r] = "fetch_data"
         /\ pc[r] = "commit" /\ pc'[r] = "done" /\ outcome'[r] = "ok"
         /\ seen[r] \cap {"insert_fail", "insert_skip"} # {}) =>
            LET stored == IF Commits(r) THEN written'[r] ELSE <<>>
            IN  /\ Len(stored) = rows_inserted[r]
                /\ \A k \in 1..Len(stored) :
                      /\ stored[k] \in BagToSet(store')
                      /\ \E j \in 1..Len(df[r]) : stored[k] = Record(df[r][j], symbol[r])]_vars

\* The events after which scripts/ingest_data.py gives a dataset up.
DatasetFailed(r) ==
    seen'[r] \cap {"fetch_fail", "fetch_empty", "connect_fail", "schema_fail",
                   "records_fail", "insert_fail", "commit_fail"} # {}

\* C16: in scripts/ingest_data.py the datasets are tried in the listed order, one
\* after the other, a dataset being left for the next only after a failure or an
\* empty result and without a commit; the commit that lands is the first of the
\* run, carries exactly the rows of the non-empty frame of the dataset in hand,
\* and ends the run, so that no dataset is fetched or written after it.
C16_FirstGoodDataset ==
    [][\A r \in Runs :
        variant[r] = "ingest_data" =>
            /\ Commits(r) =>
                  /\ pc'[r] = "done" /\ outcome'[r] = "ok"
                  /\ \A k \in 1..Len(commitLog) : commitLog[k].run # r
                  /\ df[r] # <<>>
                  /\ dataset[r] \in 1..metadata[r]
                  /\ Len(written'[r]) = Len(df[r])
                  /\ \A k \in 1..Len(df[r]) :
                        /\ written'[r][k].time = df[r][k].ts_event
                        /\ written'[r][k].symbol = symbol[r]
                        /\ PricesOf(written'[r][k]) = PricesOf(df[r][k])
            /\ dataset'[r] # dataset[r] =>
                  \/ dataset[r] = 0 /\ dataset'[r] = 1
                  \/ dataset'[r] = 0 /\ pc'[r] = "done"
                  \/ /\ dataset'[r] = dataset[r] + 1
                     /\ dataset'[r] <= metadata[r]
                     /\ pc'[r] = "fetch"
                     /\ DatasetFailed(r)
                     /\ ~Commits(r)
                     /\ conn'[r].pending = conn[r].pending \/ conn'[r].pending = <<>>]_vars

\* An ingest_data run that gave a dataset up after a failed write and committed
\* the batch of a later one.
C16_Witness ==
    \E r \in Runs :
        /\ variant[r] = "ingest_data"
        /\ pc[r] = "done" /\ outcome[r] = "ok"
        /\ "insert_fail" \in seen[r]
        /\ \E k \in 1..Len(commitLog) : commitLog[k].run = r /\ commitLog[k].recs # <<>>

\* C17: in trade_ngin/scripts/ingest_data.py, once opening the database
\* connection has failed, the function has returned normally (no exception has
\* left it) and no write was attempted.
C17_ConnectFailureReturns ==
    \A r \in Runs :
        (variant[r] = "tn_ingest" /\ "connect_fail" \in seen[r]) =>
            /\ pc[r] = "done"
            /\ outcome[r] = "ok"
            /\ ~conn[r].used

\* C18: a batch upsert changes only rows whose (time, symbol) key occurs in the
\* batch: when a commit lands, every stored row with a key not in the batch is
\* left as it was, the stored keys become the prior keys together with the keys
\* of the batch, and no step of any run removes a key from the store.
C18_FrameEffect ==
    [][/\ StoredKeys(store) \subseteq StoredKeys(store')
       /\ \A r \in Runs :
            Commits(r) =>
                LET batch == Keys(written'[r])
                IN  /\ StoredKeys(store') = StoredKeys(store) \cup batch
                    /\ \A key \in StoredKeys(store') \ batch :
                          /\ RowsFor(store', key) = RowsFor(store, key)
                          /\ \A x \in RowsFor(store, key) :
                                CopiesIn(x, store') = CopiesIn(x, store)]_vars

\* A commit has landed on a table that held a row with a key outside every
\* committed batch, and the row is still stored.
C18_Witness ==
    /\ commitLog # <<>>
    /\ \E x \in BagToSet(store) :
          /\ \A k \in 1..Len(commitLog) : Key(x) \notin Keys(commitLog[k].recs)
          /\ \E k \in 1..Len(commitLog) :
                /\ commitLog[k].recs # <<>>
                /\ variant[commitLog[k].run] \in {"ingest_data", "generate_synthetic"}

====
